---- MODULE Spec2Model ----
(***************************************************************************)
(* room-matcher: a randomized greedy matcher (solve_constraints) that      *)
(* pairs people into rooms, and the selection in main that keeps the best  *)
(* of the sampled solutions.                                               *)
(*                                                                         *)
(* Spec / FairSpec model one call of solve_constraints (src/src/main.rs    *)
(* lines 93-160) on inputs drawn from a bounded family.  SelectSpec models *)
(* the sampling and selection part of main (lines 223-250), each sample    *)
(* being one whole call of solve_constraints on an example input.          *)
(***************************************************************************)
EXTENDS Integers, Sequences, FiniteSets, TLC

VARIABLES
    people,            \* solve_constraints argument: Vec<String>
    constraints,       \* solve_constraints argument: name -> <<preferred, unpreferred>>
    remaining_people,  \* the working vector
    result,            \* Vec<(String, String)>
    num_preferred,
    num_accepted,
    num_unpreferred,
    pc,                \* control position (of solve_constraints or of main)
    num_solutions,     \* main: config["solutions"], a signed integer
    solutions,         \* main: the collected Vec<Solution>
    best_preferred,    \* main: <<>> before the assignment, <<n>> after
    best_accepted,     \* main: <<>> before the assignment, <<n>> after
    best_solutions,    \* main: the filtered vector (shadowed once in the source)
    solution           \* main: <<>> before the choice, <<s>> after

solve_vars == <<people, constraints, remaining_people, result,
                num_preferred, num_accepted, num_unpreferred>>
main_vars == <<num_solutions, solutions, best_preferred, best_accepted,
               best_solutions, solution>>
vars == <<people, constraints, remaining_people, result, num_preferred,
          num_accepted, num_unpreferred, pc, num_solutions, solutions,
          best_preferred, best_accepted, best_solutions, solution>>

(***************************************************************************)
(* Bounds of the input families.                                           *)
(***************************************************************************)
\* Total number of names written in all preferred/unpreferred lists together.
MaxRefs == 2
\* Largest sample count N tried by the selection model.
MaxSolutions == 3

\* The names a population is made of, in the sorted order in which the keys
\* of the config table are pushed onto people.
AllNames == <<"A", "B", "C", "D">>
\* A name that is never a member of the population.
Outsider == "Z"

(***************************************************************************)
(* Vec helpers.                                                            *)
(***************************************************************************)
Range(s) == {s[i] : i \in 1..Len(s)}

\* Vec::contains
Contains(s, x) == \E i \in 1..Len(s) : s[i] = x

\* iter().position(|x| x == choice).unwrap(): the first index holding x
Position(s, x) ==
    CHOOSE i \in 1..Len(s) : s[i] = x /\ \A j \in 1..(i - 1) : s[j] # x

\* Faulty variant of Vec::remove(index): the vector is left as it is
RemoveNothing(s, i) == s

\* Vec::remove(index)
Remove(s, i) == SubSeq(s, 1, i - 1) \o SubSeq(s, i + 1, Len(s))

\* the popped element of Vec::pop
Last(s) == s[Len(s)]

\* Faulty variant of pop that only peeks: the vector keeps its last element
PeekRest(s) == s

\* the vector after Vec::pop
PopRest(s) == SubSeq(s, 1, Len(s) - 1)

\* every order a shuffle can leave the vector in
Shuffles(s) ==
    {[i \in 1..Len(s) |-> s[f[i]]] : f \in Permutations(1..Len(s))}

(***************************************************************************)
(* The candidate lists of one loop iteration.  person has been popped and  *)
(* remaining is the vector after the pop.                                  *)
(***************************************************************************)
\* HashMap::get(..).unwrap() on an absent key, anywhere in lines 110-124
MissingEntry(cons, person, remaining) ==
    IF person \notin DOMAIN cons
    THEN TRUE
    ELSE \E x \in Range(remaining) :
            /\ x \notin DOMAIN cons
            /\ \/ Contains(cons[person][1], x)
               \/ ~Contains(cons[person][2], x)

\* Faulty variant: the mutuality filter is dropped
OptionsOneSided(cons, person, remaining) ==
    LET Keep(x) == Contains(remaining, x)
    IN  SelectSeq(cons[person][1], Keep)

\* Faulty variant: the mutuality filter reads the other person's unpreferred list
OptionsWrongList(cons, person, remaining) ==
    LET Keep(x) == Contains(remaining, x) /\ Contains(cons[x][2], person)
    IN  SelectSeq(cons[person][1], Keep)

\* options: lines 110-116
Options(cons, person, remaining) ==
    LET Keep(x) == Contains(remaining, x) /\ Contains(cons[x][1], person)
    IN  SelectSeq(cons[person][1], Keep)

\* secondary_options: lines 118-124
SecondaryOptions(cons, person, remaining) ==
    LET Keep(x) == /\ ~Contains(cons[person][2], x)
                   /\ ~Contains(cons[x][2], person)
    IN  SelectSeq(remaining, Keep)

(***************************************************************************)
(* Inputs of solve_constraints.                                            *)
(***************************************************************************)
Populations == {SubSeq(AllNames, 1, n) : n \in 0..Len(AllNames)}

\* A reference <<p, k, n>>: person p names n in list k (1 preferred, 2 unpreferred).
Slots(keys, pop) == keys \X {1, 2} \X (Range(pop) \cup {Outsider})

RECURSIVE RefSets(_, _)
RefSets(slots, k) ==
    IF k = 0 THEN {{}}
    ELSE LET prev == RefSets(slots, k - 1)
         IN  prev \cup {S \cup {s} : S \in prev, s \in slots}

ListOf(refs, p, k, pop) ==
    LET In(n) == <<p, k, n>> \in refs
    IN  SelectSeq(pop \o <<Outsider>>, In)

MappingOf(refs, keys, pop) ==
    [p \in keys |-> <<ListOf(refs, p, 1, pop), ListOf(refs, p, 2, pop)>>]

\* Every person has an entry, or exactly one person has none.
KeySets(pop) == {Range(pop)} \cup {Range(pop) \ {x} : x \in Range(pop)}

\* What main builds from a config table (lines 188-210): people are the keys
\* and every key has an entry.
MainInput(pop, refs) ==
    [people |-> pop, constraints |-> MappingOf(refs, Range(pop), pop)]

\* No person at all.
ExampleEmpty == MainInput(<<>>, {})

\* One person alone.
ExampleOne == MainInput(<<"A">>, {})

\* A and B list each other as unpreferred.
ExampleAB == MainInput(<<"A", "B">>, {<<"A", 2, "B">>, <<"B", 2, "A">>})

\* Three persons who list nobody.
ExampleThree == MainInput(<<"A", "B", "C">>, {})

\* A and B prefer each other, C and D prefer each other, nobody is unpreferred.
ExampleABCD ==
    MainInput(<<"A", "B", "C", "D">>,
              {<<"A", 1, "B">>, <<"B", 1, "A">>,
               <<"C", 1, "D">>, <<"D", 1, "C">>})

\* A names B in both of their lists and B prefers A; C and D list nobody.
ExampleBothLists ==
    MainInput(<<"A", "B", "C", "D">>,
              {<<"A", 1, "B">>, <<"A", 2, "B">>, <<"B", 1, "A">>})

\* A lists B as unpreferred; nobody else lists anybody.
ExampleRejected == MainInput(<<"A", "B", "C", "D">>, {<<"A", 2, "B">>})

\* A and B prefer each other; C lists D as unpreferred.
ExampleMixed ==
    MainInput(<<"A", "B", "C", "D">>,
              {<<"A", 1, "B">>, <<"B", 1, "A">>, <<"C", 2, "D">>})

Examples ==
    {ExampleEmpty, ExampleOne, ExampleAB, ExampleThree, ExampleABCD,
     ExampleBothLists, ExampleRejected, ExampleMixed}

(***************************************************************************)
(* solve_constraints                                                       *)
(***************************************************************************)
MainIdle ==
    /\ num_solutions = 0
    /\ solutions = <<>>
    /\ best_preferred = <<>>
    /\ best_accepted = <<>>
    /\ best_solutions = <<>>
    /\ solution = <<>>

Init ==
    /\ \/ \E pop \in Populations : \E keys \in KeySets(pop) :
             \E refs \in RefSets(Slots(keys, pop), MaxRefs) :
                /\ people = pop
                /\ constraints = MappingOf(refs, keys, pop)
       \/ \E input \in Examples :
             /\ people = input.people
             /\ constraints = input.constraints
    /\ remaining_people = <<>>
    /\ result = <<>>
    /\ num_preferred = 0
    /\ num_accepted = 0
    /\ num_unpreferred = 0
    /\ pc = "start"
    /\ MainIdle

\* lines 99-105
Shuffle ==
    /\ pc = "start"
    /\ remaining_people' \in Shuffles(people)
    /\ pc' = "loop"
    /\ UNCHANGED <<people, constraints, result, num_preferred, num_accepted,
                   num_unpreferred, main_vars>>

\* lines 108-124: an unwrap of a missing constraint entry panics
PanicMissing ==
    /\ pc = "loop"
    /\ remaining_people # <<>>
    /\ LET person == Last(remaining_people)
           rest == PopRest(remaining_people)
       IN  /\ MissingEntry(constraints, person, rest)
           /\ remaining_people' = rest
    /\ pc' = "panic_missing"
    /\ UNCHANGED <<people, constraints, result, num_preferred, num_accepted,
                   num_unpreferred, main_vars>>

\* lines 126-131
PairPreferred ==
    /\ pc = "loop"
    /\ remaining_people # <<>>
    /\ LET person == Last(remaining_people)
           rest == PopRest(remaining_people)
       IN  /\ ~MissingEntry(constraints, person, rest)
           /\ Options(constraints, person, rest) # <<>>
           /\ \E c \in 1..Len(Options(constraints, person, rest)) :
                 LET choice == Options(constraints, person, rest)[c]
                     index == Position(rest, choice)
                 IN  /\ result' = Append(result, <<person, choice>>)
                     /\ remaining_people' = Remove(rest, index)
    /\ num_preferred' = num_preferred + 1
    /\ UNCHANGED <<people, constraints, num_accepted, num_unpreferred, pc,
                   main_vars>>

\* lines 132-137
PairAccepted ==
    /\ pc = "loop"
    /\ remaining_people # <<>>
    /\ LET person == Last(remaining_people)
           rest == PopRest(remaining_people)
       IN  /\ ~MissingEntry(constraints, person, rest)
           /\ Options(constraints, person, rest) = <<>>
           /\ SecondaryOptions(constraints, person, rest) # <<>>
           /\ \E c \in 1..Len(SecondaryOptions(constraints, person, rest)) :
                 LET choice == SecondaryOptions(constraints, person, rest)[c]
                     index == Position(rest, choice)
                 IN  /\ result' = Append(result, <<person, choice>>)
                     /\ remaining_people' = Remove(rest, index)
    /\ num_accepted' = num_accepted + 1
    /\ UNCHANGED <<people, constraints, num_preferred, num_unpreferred, pc,
                   main_vars>>

\* lines 138-145
PanicNotEnough ==
    /\ pc = "loop"
    /\ remaining_people # <<>>
    /\ LET person == Last(remaining_people)
           rest == PopRest(remaining_people)
       IN  /\ ~MissingEntry(constraints, person, rest)
           /\ Options(constraints, person, rest) = <<>>
           /\ SecondaryOptions(constraints, person, rest) = <<>>
           /\ rest = <<>>
           /\ remaining_people' = rest
    /\ pc' = "panic_not_enough"
    /\ UNCHANGED <<people, constraints, result, num_preferred, num_accepted,
                   num_unpreferred, main_vars>>

\* lines 146-150
PairForced ==
    /\ pc = "loop"
    /\ remaining_people # <<>>
    /\ LET person == Last(remaining_people)
           rest == PopRest(remaining_people)
       IN  /\ ~MissingEntry(constraints, person, rest)
           /\ Options(constraints, person, rest) = <<>>
           /\ SecondaryOptions(constraints, person, rest) = <<>>
           /\ rest # <<>>
           /\ \E c \in 1..Len(rest) :
                 LET choice == rest[c]
                     index == Position(rest, choice)
                 IN  /\ result' = Append(result, <<person, choice>>)
                     /\ remaining_people' = Remove(rest, index)
    /\ num_unpreferred' = num_unpreferred + 1
    /\ UNCHANGED <<people, constraints, num_preferred, num_accepted, pc,
                   main_vars>>

\* lines 107, 154-159: the loop ends and the Solution is returned
Return ==
    /\ pc = "loop"
    /\ remaining_people = <<>>
    /\ pc' = "returned"
    /\ UNCHANGED <<solve_vars, main_vars>>

Next ==
    \/ Shuffle
    \/ PanicMissing
    \/ PairPreferred
    \/ PairAccepted
    \/ PanicNotEnough
    \/ PairForced
    \/ Return

Spec == Init /\ [][Next]_vars

\* solve_constraints is straight-line code: it runs until it returns or panics.
FairSpec == Init /\ [][Next]_vars /\ WF_vars(Next)

(***************************************************************************)
(* solve_constraints as one call: everything a call can end in, over every *)
(* shuffle and every random choice.  An outcome is <<s>> for a returned    *)
(* Solution s and <<>> for a panic.                                        *)
(***************************************************************************)
EmptySolution ==
    [result |-> <<>>, preferred |-> 0, accepted |-> 0, unpreferred |-> 0]

\* lines 129-131
WithPreferred(sol, person, choice) ==
    [sol EXCEPT !.result = Append(@, <<person, choice>>),
                !.preferred = @ + 1]

\* lines 135-137
WithAccepted(sol, person, choice) ==
    [sol EXCEPT !.result = Append(@, <<person, choice>>),
                !.accepted = @ + 1]

\* lines 148-150
WithUnpreferred(sol, person, choice) ==
    [sol EXCEPT !.result = Append(@, <<person, choice>>),
                !.unpreferred = @ + 1]

\* lines 107-159, from the working vector remaining and the pairs so far
RECURSIVE LoopOutcomes(_, _, _)
LoopOutcomes(cons, remaining, sol) ==
    IF remaining = <<>> THEN {<<sol>>}
    ELSE
      LET person == Last(remaining)
          rest == PopRest(remaining)
      IN  IF MissingEntry(cons, person, rest) THEN {<<>>}
          ELSE IF Options(cons, person, rest) # <<>> THEN
            UNION {LoopOutcomes(cons,
                                Remove(rest, Position(rest, choice)),
                                WithPreferred(sol, person, choice)) :
                     choice \in Range(Options(cons, person, rest))}
          ELSE IF SecondaryOptions(cons, person, rest) # <<>> THEN
            UNION {LoopOutcomes(cons,
                                Remove(rest, Position(rest, choice)),
                                WithAccepted(sol, person, choice)) :
                     choice \in Range(SecondaryOptions(cons, person, rest))}
          ELSE IF rest = <<>> THEN {<<>>}
          ELSE
            UNION {LoopOutcomes(cons,
                                Remove(rest, Position(rest, choice)),
                                WithUnpreferred(sol, person, choice)) :
                     choice \in Range(rest)}

\* lines 93-160
SolveOutcomes(ppl, cons) ==
    UNION {LoopOutcomes(cons, shuffled, EmptySolution) :
             shuffled \in Shuffles(ppl)}

(***************************************************************************)
(* main, lines 223-250: sampling and selection.  Each sample is one whole  *)
(* call of solve_constraints on the people and constraints main has built; *)
(* a call that panics ends main.                                           *)
(***************************************************************************)
\* Faulty variant: an inclusive range 0..=num_solutions
RangeLenInclusive(n) == IF n >= 0 THEN n + 1 ELSE 0

\* the number of items of the range 0..num_solutions (line 223)
RangeLen(n) == IF n > 0 THEN n ELSE 0

\* Faulty variant: Iterator::min in place of Iterator::max
SeqMin(s) == CHOOSE m \in Range(s) : \A x \in Range(s) : x >= m

\* Iterator::max of a non-empty sequence of integers
SeqMax(s) == CHOOSE m \in Range(s) : \A x \in Range(s) : x <= m

Preferreds(s) == [i \in 1..Len(s) |-> s[i].preferred]

Accepteds(s) == [i \in 1..Len(s) |-> s[i].accepted]

\* lines 228-231
FilterPreferred(s, best) ==
    LET Keep(x) == x.preferred = best
    IN  SelectSeq(s, Keep)

\* lines 234-237
FilterAccepted(s, best) ==
    LET Keep(x) == x.accepted = best
    IN  SelectSeq(s, Keep)

SelectInit ==
    /\ \E input \in Examples :
          /\ people = input.people
          /\ constraints = input.constraints
    /\ remaining_people = <<>>
    /\ result = <<>>
    /\ num_preferred = 0
    /\ num_accepted = 0
    /\ num_unpreferred = 0
    /\ pc = "sample"
    /\ num_solutions \in -1..MaxSolutions
    /\ solutions = <<>>
    /\ best_preferred = <<>>
    /\ best_accepted = <<>>
    /\ best_solutions = <<>>
    /\ solution = <<>>

\* lines 223-225: one more call of solve_constraints returns, its Solution
\* is collected
Sample ==
    /\ pc = "sample"
    /\ Len(solutions) < RangeLen(num_solutions)
    /\ \E outcome \in SolveOutcomes(people, constraints) :
          /\ outcome # <<>>
          /\ solutions' = Append(solutions, outcome[1])
    /\ UNCHANGED <<solve_vars, pc, num_solutions, best_preferred,
                   best_accepted, best_solutions, solution>>

\* line 224: the call of solve_constraints panics and main ends with it
SamplePanic ==
    /\ pc = "sample"
    /\ Len(solutions) < RangeLen(num_solutions)
    /\ <<>> \in SolveOutcomes(people, constraints)
    /\ pc' = "panic_solve"
    /\ UNCHANGED <<solve_vars, main_vars>>

\* line 227 on an empty collection: max() is None and unwrap panics
PanicEmpty ==
    /\ pc = "sample"
    /\ Len(solutions) = RangeLen(num_solutions)
    /\ solutions = <<>>
    /\ pc' = "panic_empty"
    /\ UNCHANGED <<solve_vars, main_vars>>

\* lines 227-231
BestPreferred ==
    /\ pc = "sample"
    /\ Len(solutions) = RangeLen(num_solutions)
    /\ solutions # <<>>
    /\ best_preferred' = <<SeqMax(Preferreds(solutions))>>
    /\ best_solutions' =
          FilterPreferred(solutions, SeqMax(Preferreds(solutions)))
    /\ pc' = "best_accepted"
    /\ UNCHANGED <<solve_vars, num_solutions, solutions, best_accepted,
                   solution>>

\* lines 233-237; the first filter kept at least one Solution
BestAccepted ==
    /\ pc = "best_accepted"
    /\ best_solutions # <<>>
    /\ best_accepted' = <<SeqMax(Accepteds(best_solutions))>>
    /\ best_solutions' =
          FilterAccepted(best_solutions, SeqMax(Accepteds(best_solutions)))
    /\ pc' = "select"
    /\ UNCHANGED <<solve_vars, num_solutions, solutions, best_preferred,
                   solution>>

\* line 250
Select ==
    /\ pc = "select"
    /\ \E i \in 1..Len(best_solutions) : solution' = <<best_solutions[i]>>
    /\ pc' = "selected"
    /\ UNCHANGED <<solve_vars, num_solutions, solutions, best_preferred,
                   best_accepted, best_solutions>>

SelectNext ==
    \/ Sample
    \/ SamplePanic
    \/ PanicEmpty
    \/ BestPreferred
    \/ BestAccepted
    \/ Select

SelectSpec == SelectInit /\ [][SelectNext]_vars

(***************************************************************************)
(* Vocabulary of the properties, stated on the inputs alone.               *)
(***************************************************************************)
\* The names person p wrote in list k; nothing when p has no entry.
Listed(p, k) ==
    IF p \in DOMAIN constraints THEN Range(constraints[p][k]) ELSE {}

MutualPreferred(p, q) == q \in Listed(p, 1) /\ p \in Listed(q, 1)

MutuallyAcceptable(p, q) == q \notin Listed(p, 2) /\ p \notin Listed(q, 2)

AllHaveEntries == Range(people) \subseteq DOMAIN constraints

SomeoneLacksEntry == \E p \in Range(people) : p \notin DOMAIN constraints

NamesAnOutsider ==
    \E p \in DOMAIN constraints : \E k \in {1, 2} :
        \E n \in Range(constraints[p][k]) :
            n \notin Range(people) /\ n \notin DOMAIN constraints

Terminated == pc \in {"returned", "panic_missing", "panic_not_enough"}

Panicked == pc \in {"panic_missing", "panic_not_enough"}

\* The step-by-step call and the call taken as a whole end in the same outcomes.
StepwiseAgrees ==
    /\ pc = "returned" =>
          <<[result |-> result, preferred |-> num_preferred,
             accepted |-> num_accepted, unpreferred |-> num_unpreferred]>>
             \in SolveOutcomes(people, constraints)
    /\ Panicked => <<>> \in SolveOutcomes(people, constraints)

\* The places of the pairing where person p stands.
Places(p) == {t \in (1..Len(result)) \X {1, 2} : result[t[1]][t[2]] = p}

Rooms == {{result[i][1], result[i][2]} : i \in 1..Len(result)}

NewPair == result'[Len(result')]

CountedPreferred == num_preferred' = num_preferred + 1
CountedAccepted == num_accepted' = num_accepted + 1
CountedUnpreferred == num_unpreferred' = num_unpreferred + 1

\* The current person of an iteration and the people still in the working set.
Current == remaining_people[Len(remaining_people)]
StillRemaining ==
    {remaining_people[i] : i \in 1..(Len(remaining_people) - 1)}

(***************************************************************************)
(* C1. For an even population of unique names whose members all have an    *)
(* entry, a call of solve_constraints that has ended has returned a        *)
(* Solution: every person stands in exactly one place of the pairing,      *)
(* nobody is paired with themselves, and preferred + accepted +            *)
(* unpreferred is half the population size.                                *)
(***************************************************************************)
C1_Completeness ==
    (Len(people) % 2 = 0 /\ AllHaveEntries /\ Terminated) =>
        /\ pc = "returned"
        /\ \A p \in Range(people) : Cardinality(Places(p)) = 1
        /\ \A i \in 1..Len(result) :
              /\ result[i][1] # result[i][2]
              /\ {result[i][1], result[i][2]} \subseteq Range(people)
        /\ Len(result) = Len(people) \div 2
        /\ num_preferred + num_accepted + num_unpreferred = Len(people) \div 2

\* Four people paired in two rooms, one of them forced.
C1_Witness ==
    /\ pc = "returned"
    /\ Len(people) = 4
    /\ AllHaveEntries
    /\ Len(result) = 2
    /\ num_unpreferred = 1

(***************************************************************************)
(* C2. Whenever a step counts a pair as preferred, each member lists the   *)
(* other as preferred; whenever a step counts a pair as accepted, neither  *)
(* member lists the other as unpreferred.  This holds for every mapping,   *)
(* also when a name stands in both lists of one person.                    *)
(***************************************************************************)
C2_Mutuality ==
    [][ /\ CountedPreferred => MutualPreferred(NewPair[1], NewPair[2])
        /\ CountedAccepted => MutuallyAcceptable(NewPair[1], NewPair[2]) ]_vars

\* A returned Solution with a preferred pair, one of whose members also lists
\* the other as unpreferred, and an accepted pair.
C2_Witness ==
    /\ pc = "returned"
    /\ num_preferred = 1
    /\ num_accepted = 1
    /\ \E i \in 1..Len(result) :
          /\ MutualPreferred(result[i][1], result[i][2])
          /\ ~MutuallyAcceptable(result[i][1], result[i][2])

(***************************************************************************)
(* C3. For a non-empty collection of Solutions a winner is selected: it is *)
(* a member of the collection, its preferred count is the maximum of the   *)
(* collection and its accepted count is the maximum among the solutions    *)
(* with that preferred count.  The candidates it is drawn from are all the *)
(* solutions that are best in both counts, whatever their unpreferred      *)
(* count.                                                                  *)
(***************************************************************************)
BestInBoth(s) ==
    /\ \A x \in Range(solutions) : x.preferred <= s.preferred
    /\ \A x \in Range(solutions) :
          x.preferred = s.preferred => x.accepted <= s.accepted

C3_SelectsBest ==
    /\ solutions # <<>> => pc # "panic_empty"
    /\ pc \in {"select", "selected"} =>
          Range(best_solutions) = {s \in Range(solutions) : BestInBoth(s)}
    /\ pc = "selected" =>
          /\ Len(solution) = 1
          /\ solution[1] \in Range(solutions)
          /\ BestInBoth(solution[1])

\* Three calls on one population: the winner has a larger preferred count than
\* a sample with more accepted pairs, and was drawn from two tied candidates.
C3_Witness ==
    /\ pc = "selected"
    /\ Len(solutions) = 3
    /\ Len(best_solutions) = 2
    /\ \E x \in Range(solutions) :
          /\ x.preferred < solution[1].preferred
          /\ x.accepted > solution[1].accepted

(***************************************************************************)
(* C4. For an odd population whose members all have an entry no Solution   *)
(* is returned: a call that has ended has ended in the 'not enough people' *)
(* panic, with the working set empty, and no pair formed on the way pairs  *)
(* a person with themselves.                                               *)
(***************************************************************************)
C4_OddPopulationIsFatal ==
    (Len(people) % 2 = 1 /\ AllHaveEntries) =>
        /\ pc # "returned"
        /\ Terminated => (pc = "panic_not_enough" /\ remaining_people = <<>>)
        /\ \A i \in 1..Len(result) : result[i][1] # result[i][2]

\* Three people: one pair was formed, then the last person had no partner.
C4_Witness ==
    /\ pc = "panic_not_enough"
    /\ Len(people) = 3
    /\ AllHaveEntries
    /\ Len(result) = 1

(***************************************************************************)
(* C5 (as claimed). Whenever some person of the population has no entry in *)
(* the constraint mapping, solve_constraints returns no Solution.          *)
(***************************************************************************)
C5_MissingEntryIsFatal == SomeoneLacksEntry => pc # "returned"

(***************************************************************************)
(* C6 (as claimed). Whenever a preferred or unpreferred list names someone *)
(* who is not in the population and has no key in the mapping,             *)
(* solve_constraints returns no Solution.                                  *)
(***************************************************************************)
C6_OutsiderIsFatal == NamesAnOutsider => pc # "returned"

(***************************************************************************)
(* C7. When no sample is taken (the sample count is 0 or negative) no call *)
(* of solve_constraints is made and the collection stays empty; whenever   *)
(* the selection starts on an empty collection main panics on it, and with *)
(* an empty collection no best count is computed, no candidate kept and no *)
(* winner chosen.                                                          *)
(***************************************************************************)
C7_EmptyIsFatal ==
    /\ num_solutions <= 0 =>
          /\ solutions = <<>>
          /\ pc \in {"sample", "panic_empty"}
    /\ (solutions = <<>> /\ pc \notin {"sample", "panic_solve"}) =>
          pc = "panic_empty"
    /\ solutions = <<>> =>
          /\ best_preferred = <<>>
          /\ best_accepted = <<>>
          /\ best_solutions = <<>>
          /\ solution = <<>>

\* Four people who could be matched, a sample count of 0, and the panic.
C7_Witness ==
    /\ pc = "panic_empty"
    /\ num_solutions = 0
    /\ Len(people) = 4
    /\ solution = <<>>

(***************************************************************************)
(* C8. On the population A, B, C, D where A and B prefer only each other,  *)
(* C and D prefer only each other and nobody is unpreferred, a call never  *)
(* panics and what it returns has preferred = 2, accepted = 0,             *)
(* unpreferred = 0 and the rooms {A, B} and {C, D}.                        *)
(***************************************************************************)
C8_ExampleABCD ==
    (people = ExampleABCD.people /\ constraints = ExampleABCD.constraints) =>
        /\ ~Panicked
        /\ pc = "returned" =>
              /\ num_preferred = 2
              /\ num_accepted = 0
              /\ num_unpreferred = 0
              /\ Len(result) = 2
              /\ Rooms = {{"A", "B"}, {"C", "D"}}

C8_Witness ==
    /\ pc = "returned"
    /\ people = ExampleABCD.people
    /\ constraints = ExampleABCD.constraints
    /\ remaining_people = <<>>

(***************************************************************************)
(* C9. The tiers are tried in priority order at every pairing step: a pair *)
(* is counted as accepted only when nobody still in the working set was a  *)
(* mutual-preferred candidate of the current person; a pair is counted as  *)
(* unpreferred only when nobody still in the working set was mutually      *)
(* acceptable to the current person, so one member of it lists the other   *)
(* as unpreferred; a pair without a mutual preference is never counted as  *)
(* preferred.                                                              *)
(***************************************************************************)
C9_TierPriority ==
    [][ /\ CountedAccepted =>
              \A x \in StillRemaining : ~MutualPreferred(Current, x)
        /\ CountedUnpreferred =>
              /\ \A x \in StillRemaining : ~MutualPreferred(Current, x)
              /\ \A x \in StillRemaining : ~MutuallyAcceptable(Current, x)
              /\ ~MutuallyAcceptable(NewPair[1], NewPair[2])
        /\ (Len(result') = Len(result) + 1
              /\ ~MutualPreferred(NewPair[1], NewPair[2])) =>
              ~CountedPreferred ]_vars

\* A returned Solution with an accepted pair in which only one member prefers
\* the other, and a forced pair.
C9_Witness ==
    /\ pc = "returned"
    /\ num_preferred = 0
    /\ num_accepted = 1
    /\ num_unpreferred = 1
    /\ \E i \in 1..Len(result) :
          /\ result[i][2] \in Listed(result[i][1], 1)
          /\ result[i][1] \notin Listed(result[i][2], 1)
          /\ MutuallyAcceptable(result[i][1], result[i][2])

(***************************************************************************)
(* C10. Every call of solve_constraints ends, returning or panicking.      *)
(* Each step that forms a pair takes exactly two persons out of the        *)
(* working set, the number of loop iterations (pairs formed, plus the one  *)
(* that panicked) never exceeds half the population size rounded up, and   *)
(* an empty population returns an empty pairing with all counters zero.    *)
(***************************************************************************)
C10_Termination ==
    /\ <>Terminated
    /\ [][Len(result') = Len(result) + 1 =>
            Len(remaining_people') = Len(remaining_people) - 2]_vars
    /\ [](Len(result) + (IF Panicked THEN 1 ELSE 0)
            <= (Len(people) + 1) \div 2)
    /\ []((Len(people) = 0 /\ pc # "start") =>
            /\ pc \in {"loop", "returned"}
            /\ result = <<>>
            /\ num_preferred = 0 /\ num_accepted = 0 /\ num_unpreferred = 0)

\* The loop ran the full two iterations on four people.
C10_Witness ==
    /\ Terminated
    /\ Len(people) = 4
    /\ Len(result) + (IF Panicked THEN 1 ELSE 0) = 2

====
